---------------------------- MODULE Spec2Model ----------------------------
(***************************************************************************)
(* A model of the access-tracking and expiry subsystem of                  *)
(* jc-lab/docker-cache-server:                                             *)
(*   - pkg/cache/lru_tracker.go  (LRUTracker: in-memory map, durable       *)
(*     mirror, expiry query, cleanup loop),                                *)
(*   - the lru_driver package    (Driver: the storage interception layer), *)
(*   - the server package        (New: how the tracker is constructed).    *)
(*                                                                         *)
(* Time is one non-decreasing clock (time.Now()); timestamps are instants  *)
(* on it.  Every section of code that runs under LRUTracker.mu is one      *)
(* atomic step; code outside the lock (saveMetadata's marshal and file     *)
(* write, the delete callback) is a step of its own, so that every         *)
(* interleaving the mutex allows is explored.                              *)
(***************************************************************************)
EXTENDS Integers, Sequences, FiniteSets, Bags, TLC

(***************************************************************************)
(* Bounds of the model.                                                    *)
(***************************************************************************)
MaxTime == 2          \* the clock runs over 0..MaxTime
MaxTasks == 1         \* saveMetadata goroutines in flight at once
ttl == 1              \* LRUTracker.ttl, in clock units
MaxBurst == 2         \* saveMetadata goroutines in flight in a burst of accesses

(***************************************************************************)
(* Strings.  A Go string is a TLA+ string; s[i:j] is SubSeq(s, i+1, j).    *)
(***************************************************************************)
Char(s, i) == SubSeq(s, i, i)

\* strings.Index(s, c) for a one-character c, 1-based; 0 when c is absent.
RECURSIVE IndexFrom(_, _, _)
IndexFrom(s, c, i) ==
    IF i > Len(s) THEN 0
    ELSE IF Char(s, i) = c THEN i
    ELSE IndexFrom(s, c, i + 1)

Index(s, c) == IndexFrom(s, c, 1)

HexChars == {"0", "1", "2", "3", "4", "5", "6", "7", "8", "9",
             "a", "b", "c", "d", "e", "f"}

\* go-digest: the algorithms linked into the binary and their hex lengths.
HexLen(alg) ==
    CASE alg = "sha256" -> 64
      [] alg = "sha384" -> 96
      [] alg = "sha512" -> 128
      [] OTHER -> 0

\* digest.Parse(s) succeeds: "<available algorithm>:<size*2 lowercase hex>".
digestParseOk(s) ==
    LET i == Index(s, ":") IN
    /\ i > 1
    /\ i < Len(s)
    /\ LET alg == SubSeq(s, 1, i - 1)
           enc == SubSeq(s, i + 1, Len(s))
       IN /\ HexLen(alg) > 0
          /\ Len(enc) = HexLen(alg)
          /\ \A j \in 1..Len(enc) : Char(enc, j) \in HexChars

(***************************************************************************)
(* The keys of the model: a well-formed digest and one digest.Digest       *)
(* value of at most ten characters (RecordAccess and RemoveBlob take any   *)
(* digest.Digest, a string type, and getMetaFilePath has a branch for it). *)
(***************************************************************************)
HexA == "aaaaaaaaaaaaaaaaaaaaaaaaaaaaaaaaaaaaaaaaaaaaaaaaaaaaaaaaaaaaaaaa"
KeyA == "sha256:" \o HexA
KeyShort == "sha256:ab"
Keys == {KeyA, KeyShort}

\* A second well-formed digest, for the cleanup loop to find two keys expired.
HexB == "bbbbbbbbbbbbbbbbbbbbbbbbbbbbbbbbbbbbbbbbbbbbbbbbbbbbbbbbbbbbbbbb"
KeyB == "sha256:" \o HexB
LoopKeys == {KeyA, KeyB}
Sizes == {1}
\* The byte lengths a caller may report where the length matters.
ReportedSizes == {1, 2}
Procs == {"p1", "p2"}

(***************************************************************************)
(* BlobMeta and its JSON form.                                             *)
(***************************************************************************)
BlobMeta(digest, lastAccessed, size, createdAt) ==
    [Digest |-> digest, LastAccessed |-> lastAccessed,
     Size |-> size, CreatedAt |-> createdAt]

\* The zero value of the Go struct.
ZeroMeta == BlobMeta("", 0, 0, 0)

\* json.Marshal(meta): the object with the struct tags as member names.
Marshal(meta) ==
    [digest |-> meta.Digest, last_accessed |-> meta.LastAccessed,
     size |-> meta.Size, created_at |-> meta.CreatedAt]

\* json.Unmarshal(data, &meta): members present overwrite the zero value.
Unmarshal(data) ==
    LET has(f) == f \in DOMAIN data IN
    BlobMeta(IF has("digest") THEN data.digest ELSE ZeroMeta.Digest,
             IF has("last_accessed") THEN data.last_accessed
                                     ELSE ZeroMeta.LastAccessed,
             IF has("size") THEN data.size ELSE ZeroMeta.Size,
             IF has("created_at") THEN data.created_at ELSE ZeroMeta.CreatedAt)

(***************************************************************************)
(* The durable mirror.  A file is named by its path relative to metaDir,   *)
(* a sequence of path elements (filepath.Join of them).                    *)
(***************************************************************************)
getMetaFilePath(key) ==
    IF Len(key) > 10
    THEN <<SubSeq(key, 1, 2), SubSeq(key, 3, 4), key \o ".json">>
    ELSE <<key \o ".json">>

\* filepath.Ext(name) = ".json"
HasJsonExt(name) ==
    /\ Len(name) >= 5
    /\ SubSeq(name, Len(name) - 4, Len(name)) = ".json"

\* os.ReadDir(metaDir) without the directories: the regular files directly
\* in metaDir.  A longer path shows in metaDir as a directory, which the
\* loop skips (entry.IsDir()).
TopLevelFiles(d) == {f \in DOMAIN d : Len(f) = 1 /\ HasJsonExt(f[1])}

\* loadMetadata: the map built from the files directly in metaDir.
loadMetadata(d) ==
    LET metas == {Unmarshal(d[f]) : f \in TopLevelFiles(d)}
        digests == {m.Digest : m \in metas}
    IN [k \in digests |-> CHOOSE m \in metas : m.Digest = k]

(***************************************************************************)
(* The key extractor of the driver.                                        *)
(***************************************************************************)
\* The loop of splitPath runs over the bytes that are not '/' without a
\* change of its state: the next index at which it acts is that of the next
\* '/' at or after i, or Len(path) + 1 when there is none.
NextSlash(path, i) ==
    LET slashes == {j \in i..Len(path) : Char(path, j) = "/"}
    IN IF slashes = {} THEN Len(path) + 1
       ELSE CHOOSE j \in slashes : \A k \in slashes : j <= k

\* splitPath: the non-empty segments between the '/' of path[i..], the
\* segment under way starting at start.
RECURSIVE SplitFrom(_, _, _)
SplitFrom(path, i, start) ==
    LET j == NextSlash(path, i) IN
    IF j > Len(path)
    THEN IF start <= Len(path) THEN <<SubSeq(path, start, Len(path))>> ELSE <<>>
    ELSE (IF j > start THEN <<SubSeq(path, start, j - 1)>> ELSE <<>>)
         \o SplitFrom(path, j + 1, j + 1)

splitPath(path) == SplitFrom(path, 1, 1)

\* An extractor that takes the shard segment for the digest segment.
extractDigestFromPathShard(path) ==
    IF Len(path) < 20 THEN ""
    ELSE LET parts == splitPath(path)
             hits == {i \in 1..Len(parts) :
                        /\ parts[i] = "blobs"
                        /\ i + 3 <= Len(parts)
                        /\ digestParseOk(parts[i + 1] \o ":" \o parts[i + 2])}
         IN IF hits = {} THEN ""
            ELSE LET i == CHOOSE h \in hits : \A g \in hits : h <= g
                 IN parts[i + 1] \o ":" \o parts[i + 2]

\* extractDigestFromPath: "" for a path shorter than 20 bytes; otherwise the
\* first "blobs" segment with three segments after it whose first and third
\* form a digest that digest.Parse accepts; "" when there is none.
extractDigestFromPath(path) ==
    IF Len(path) < 20 THEN ""
    ELSE LET parts == splitPath(path)
             hits == {i \in 1..Len(parts) :
                        /\ parts[i] = "blobs"
                        /\ i + 3 <= Len(parts)
                        /\ digestParseOk(parts[i + 1] \o ":" \o parts[i + 3])}
         IN IF hits = {} THEN ""
            ELSE LET i == CHOOSE h \in hits : \A g \in hits : h <= g
                 IN parts[i + 1] \o ":" \o parts[i + 3]

\* The paths of the model: the content file of blob KeyA, and the data file
\* of an upload in progress.
BlobPathA == "/docker/registry/v2/blobs/sha256/aa/" \o HexA \o "/data"
UploadPath == "/docker/registry/v2/repositories/app/_uploads/u1/data"
Paths == {BlobPathA, UploadPath}

\* extractDigestFromPath on the paths of the model, computed once.
PathDigest == [path \in Paths |-> extractDigestFromPath(path)]

\* The paths the registry hands to the driver, after the layout of the
\* wrapped store: blob content under <root>/blobs, and under
\* <root>/repositories/<name> the layer and manifest links and the files of
\* an upload in progress.  A repository name is chosen by the client and
\* may have "blobs", an algorithm, two characters and a hex string among
\* its components.
Root == "/docker/registry/v2"
HexC == HexA \o HexB
Digests == {<<"sha256", HexA>>, <<"sha256", HexB>>, <<"sha512", HexC>>,
            <<"sha256", "abc123">>, <<"md5", HexA>>}
RepoNames == {"app", "blobs", "blobs/sha256/aa/" \o HexA,
              "lib/blobs/sha256/bb/" \o HexB}

\* blobDataPath: <root>/blobs/<algorithm>/<first two>/<hex>/data
BlobDataPath(alg, hex) ==
    Root \o "/blobs/" \o alg \o "/" \o SubSeq(hex, 1, 2) \o "/" \o hex
         \o "/data"

Repo(name) == Root \o "/repositories/" \o name

BlobDataPaths == {BlobDataPath(d[1], d[2]) : d \in Digests}
LayerLinkPaths ==
    {Repo(n) \o "/_layers/" \o d[1] \o "/" \o d[2] \o "/link" :
       n \in RepoNames, d \in Digests}
ManifestLinkPaths ==
    {Repo(n) \o "/_manifests/revisions/" \o d[1] \o "/" \o d[2] \o "/link" :
       n \in RepoNames, d \in Digests}
    \cup {Repo(n) \o "/_manifests/tags/latest/current/link" : n \in RepoNames}
UploadPaths ==
    {Repo(n) \o "/_uploads/u1/" \o f :
       n \in RepoNames, f \in {"data", "startedat", "hashstates/sha256/0"}}

\* Short, empty and malformed paths.
MalformedPaths ==
    {"", "/", "blobs", "/blobs/sha256/aa", "////////////////////",
     "/docker/registry/v2/blobs", "/docker/registry/v2/blobs/sha256/aa/",
     Root \o "/blobs/sha256/aa/" \o HexA,
     Root \o "/blobs/sha256/" \o HexA \o "/data",
     Root \o "//blobs//sha256//aa//" \o HexA \o "//data",
     Root \o "/blobs/sha256/aa/" \o HexA \o "x/data"}

PathInputs ==
    BlobDataPaths \cup LayerLinkPaths \cup ManifestLinkPaths
        \cup UploadPaths \cup MalformedPaths

\* What the wrapped store answers: "ok" or an error.
Errors == {"ENOENT", "EIO"}
Outcomes == {"ok"} \cup Errors

(***************************************************************************)
(* The tracker's pure steps on the map (a function from the tracked keys   *)
(* to their BlobMeta).                                                     *)
(***************************************************************************)
\* A RecordAccess that leaves the entry of a key already tracked as it is.
RecordAccessKeepsTime(b, key, size, now) ==
    IF key \in DOMAIN b THEN b
    ELSE [k \in DOMAIN b \cup {key} |->
            IF k = key THEN BlobMeta(key, now, size, now) ELSE b[k]]

\* A RecordAccess that stamps CreatedAt anew on every call.
RecordAccessRestampsCreated(b, key, size, now) ==
    [k \in DOMAIN b \cup {key} |->
       IF k = key THEN BlobMeta(key, now, size, now) ELSE b[k]]

\* RecordAccess under the lock: an existing entry gets LastAccessed = now,
\* a new entry is created with every field set.
RecordAccess(b, key, size, now) ==
    IF key \in DOMAIN b
    THEN [b EXCEPT ![key].LastAccessed = now]
    ELSE [k \in DOMAIN b \cup {key} |->
            IF k = key THEN BlobMeta(key, now, size, now) ELSE b[k]]

\* RecordWrite delegates to RecordAccess.
RecordWrite(b, key, size, now) == RecordAccess(b, key, size, now)

\* GetExpiredBlobs: the keys past the TTL that digest.Parse accepts.
GetExpiredBlobs(b, now) ==
    {key \in DOMAIN b : /\ now - b[key].LastAccessed > ttl
                        /\ digestParseOk(key)}

\* delete(t.blobs, key)
MapDelete(b, key) == [k \in DOMAIN b \ {key} |-> b[k]]

\* time.Duration.String() of a whole number of clock units, a unit being
\* an hour: "0s" for zero, "<d>h0m0s" otherwise.
DurationString(d) == IF d = 0 THEN "0s" ELSE ToString(d) \o "h0m0s"

\* Lines 271-274: the loop over t.blobs that adds up meta.Size.
RECURSIVE TotalSize(_, _)
TotalSize(b, keys) ==
    IF keys = {} THEN 0
    ELSE LET k == CHOOSE x \in keys : TRUE
         IN b[k].Size + TotalSize(b, keys \ {k})

\* The map GetStats returns.
StatsMap(totalBlobs, totalSize, ttlString) ==
    [total_blobs |-> totalBlobs, total_size |-> totalSize, ttl |-> ttlString]

\* A GetStats that adds one for every entry in place of its size.
GetStatsCountsEntries(b) ==
    StatsMap(Cardinality(DOMAIN b), Cardinality(DOMAIN b), DurationString(ttl))

\* Lines 267-281: GetStats, on the map it sees under the read lock.
GetStats(b) ==
    StatsMap(Cardinality(DOMAIN b), TotalSize(b, DOMAIN b),
             DurationString(ttl))

(***************************************************************************)
(* State.                                                                  *)
(***************************************************************************)
VARIABLES
    clock,      \* time.Now()
    tracker,    \* what NewLRUTracker returned to its caller: "ok" or "nil"
    blobs,      \* LRUTracker.blobs
    disk,       \* the files under metaDir: path -> JSON object
    tasks,      \* the saveMetadata goroutines in flight (a bag)
    cl,         \* the cleanup goroutine
    pcs,        \* the callers that are observed call by call
    writers,    \* the open lruFileWriter handles
    last,       \* history: the latest tracker operation on each key
    stopCleanup, \* LRUTracker.stopCleanup, the channel: "open" or "closed"
    ctx,        \* the context handed to StartCleanup: "live" or "done"
    hooks,      \* the calls made of Options.OnBlobAccess / OnBlobDelete
    inPath,     \* a path handed to extractDigestFromPath
    extracted,  \* what extractDigestFromPath returned for it: <<>> or <<key>>
    stats       \* what the latest GetStats returned to its caller: <<>> or <<map>>

\* The variables that only the cleanup signals, the server and the key
\* extractor touch.
env == <<stopCleanup, ctx, hooks, inPath, extracted, stats>>

vars == <<clock, tracker, blobs, disk, tasks, cl, pcs, writers, last, env>>

\* A saveMetadata goroutine.  stage: "start" (before line 230), "held"
\* (after line 232, holding meta), "marshalled" (after line 239, holding
\* data; meta is not read again).  meta is a pointer: ptr = "live" while the
\* object it points to is the one in the map; when the map entry is deleted
\* the object lives on unchanged, no longer reachable from the map, and the
\* goroutine keeps it as snap (ptr = "detached").
Task(key, stage, ptr, snap, data) ==
    [key |-> key, stage |-> stage, ptr |-> ptr, snap |-> snap, data |-> data]

NewTask(key) == Task(key, "start", "none", ZeroMeta, <<>>)

\* What the goroutine's meta pointer points to.
Deref(t) == IF t.ptr = "live" THEN blobs[t.key] ELSE t.snap

NumTasks == BagCardinality(tasks)

\* The goroutines after delete(t.blobs, key): each pointer to the deleted
\* entry's object keeps that object.
Detach(ts, key) ==
    IF key \in DOMAIN blobs
    THEN BagOfAll(LAMBDA t : IF t.key = key /\ t.ptr = "live"
                              THEN Task(t.key, t.stage, "detached",
                                        blobs[key], t.data)
                              ELSE t, ts)
    ELSE ts

\* A caller: "idle"; blocked in RecordAccess at t.mu.Lock() ("lock", stamp
\* the time of the call); or returned ("done", stamp the timestamp the call
\* took), with what the wrapped store answered (store) and what the caller
\* got back (ret).
Proc(state, op, key, size, stamp, store, ret) ==
    [state |-> state, op |-> op, key |-> key, size |-> size,
     stamp |-> stamp, store |-> store, ret |-> ret]

Idle == Proc("idle", "", "", 0, 0, "none", "none")

\* The cleanup goroutine: "off" (StartCleanup not called), "idle" (in the
\* select), and inside runCleanup's loop at expired[i]: "delete" (before
\* deleteFunc), "size" (before line 174), "remove" (before line 180),
\* "report" (before the log line 187, after which the locals are gone).
Cleanup(pc, expired, i, deletedCount, totalSize) ==
    [pc |-> pc, expired |-> expired, i |-> i,
     deletedCount |-> deletedCount, totalSize |-> totalSize]

CleanupOff == Cleanup("off", <<>>, 0, 0, 0)

\* NewLRUTracker over the files of d: an empty map, then loadMetadata.
NewLRUTracker(d) == loadMetadata(d)

\* What NewLRUTracker hands back: nil (with an error) when os.MkdirAll on
\* the metadata directory fails, the tracker otherwise.
NewLRUTrackerResult(mkdirOk) == IF mkdirOk THEN "ok" ELSE "nil"

\* The lruFileWriter handle that Driver.Writer returns.
Handle(path, dgst, committed) ==
    [path |-> path, digest |-> dgst, committed |-> committed]

InitTracker(mkdirOk) ==
    /\ clock = 0
    /\ tracker = NewLRUTrackerResult(mkdirOk)
    /\ disk = <<>>
    /\ blobs = NewLRUTracker(disk)
    /\ tasks = EmptyBag
    /\ cl = CleanupOff
    /\ pcs = [p \in Procs |-> Idle]
    /\ writers = {}
    /\ last = [k \in Keys \cup LoopKeys |-> "none"]
    /\ stopCleanup = "open"
    /\ ctx = "live"
    /\ hooks = {}
    /\ inPath = ""
    /\ extracted = <<>>
    /\ stats = <<>>

\* A tracker whose construction succeeded.
Init == InitTracker(TRUE)

\* server.New: the error of NewLRUTracker is dropped and whatever tracker it
\* returned is handed to lru_driver.New.
InitServer == \E mkdirOk \in BOOLEAN : InitTracker(mkdirOk)

\* The extractor is about to be applied to one of the paths.
InitExtract ==
    /\ clock = 0
    /\ tracker = NewLRUTrackerResult(TRUE)
    /\ disk = <<>>
    /\ blobs = NewLRUTracker(disk)
    /\ tasks = EmptyBag
    /\ cl = CleanupOff
    /\ pcs = [p \in Procs |-> Idle]
    /\ writers = {}
    /\ last = [k \in Keys \cup LoopKeys |-> "none"]
    /\ stopCleanup = "open"
    /\ ctx = "live"
    /\ hooks = {}
    /\ inPath \in PathInputs
    /\ extracted = <<>>
    /\ stats = <<>>

(***************************************************************************)
(* The clock.                                                              *)
(***************************************************************************)
Tick ==
    /\ clock < MaxTime
    /\ clock' = clock + 1
    /\ UNCHANGED <<tracker, blobs, disk, tasks, cl, pcs, writers, last, env>>

(***************************************************************************)
(* RecordAccess / RecordWrite.                                             *)
(***************************************************************************)
\* Lines 67-82 with the lock held: the map update and `go saveMetadata`.
RecordAccessBody(key, size, now) ==
    /\ blobs' = RecordAccess(blobs, key, size, now)
    /\ tasks' = tasks (+) SetToBag({NewTask(key)})
    /\ last' = [last EXCEPT ![key] = "record"]

\* A call of RecordAccess on the tracker from lock to unlock; now is
\* time.Now() of line 68.
RecordAccessStep(key, size) ==
    /\ tracker = "ok"
    /\ NumTasks < MaxTasks
    /\ RecordAccessBody(key, size, clock)
    /\ UNCHANGED <<clock, tracker, disk, cl, pcs, writers, env>>

RecordWriteStep(key, size) == RecordAccessStep(key, size)

\* A RecordAccess of a burst: the call of RecordAccessStep, with up to
\* MaxBurst goroutines of earlier calls still under way.
BurstRecord(key, size) ==
    /\ tracker = "ok"
    /\ NumTasks < MaxBurst
    /\ RecordAccessBody(key, size, clock)
    /\ UNCHANGED <<clock, tracker, disk, cl, pcs, writers, env>>

(***************************************************************************)
(* saveMetadata(key), one goroutine per RecordAccess.                      *)
(***************************************************************************)
Advance(t, u) == (tasks (-) SetToBag({t})) (+) SetToBag({u})

\* Lines 230-236: read the map under the read lock.
SaveRead(t) ==
    /\ t.stage = "start"
    /\ tasks' = IF t.key \in DOMAIN blobs
                THEN Advance(t, Task(t.key, "held", "live", ZeroMeta, <<>>))
                ELSE tasks (-) SetToBag({t})
    /\ UNCHANGED <<clock, tracker, blobs, disk, cl, pcs, writers, last, env>>

\* Line 239: json.Marshal(meta) reads the object without the lock, racing
\* with the write of line 71.  The wall time of a time.Now() value lies in
\* one machine word, so the racing read yields the timestamp from before or
\* from after the write: the two outcomes of taking this step before or
\* after the RecordAccess step.
SaveMarshal(t) ==
    /\ t.stage = "held"
    /\ tasks' = Advance(t, Task(t.key, "marshalled", "none", ZeroMeta,
                                <<Marshal(Deref(t))>>))
    /\ UNCHANGED <<clock, tracker, blobs, disk, cl, pcs, writers, last, env>>

\* Lines 246-254: MkdirAll and WriteFile succeed.
SaveWrite(t) ==
    /\ t.stage = "marshalled"
    /\ LET f == getMetaFilePath(t.key)
       IN disk' = [g \in DOMAIN disk \cup {f} |->
                     IF g = f THEN t.data[1] ELSE disk[g]]
    /\ tasks' = tasks (-) SetToBag({t})
    /\ UNCHANGED <<clock, tracker, blobs, cl, pcs, writers, last, env>>

\* Lines 246-254: MkdirAll or WriteFile fails; the error is logged.
SaveWriteFail(t) ==
    /\ t.stage = "marshalled"
    /\ tasks' = tasks (-) SetToBag({t})
    /\ UNCHANGED <<clock, tracker, blobs, disk, cl, pcs, writers, last, env>>

(***************************************************************************)
(* RemoveBlob.                                                             *)
(***************************************************************************)
\* A RemoveBlob that puts the entry back when os.Remove fails.
RemoveBlobUndoes(key, removeErr) ==
    /\ blobs' = IF removeErr THEN blobs ELSE MapDelete(blobs, key)
    /\ tasks' = IF removeErr THEN tasks ELSE Detach(tasks, key)
    /\ disk' = IF removeErr THEN disk
               ELSE [f \in DOMAIN disk \ {getMetaFilePath(key)} |-> disk[f]]

\* A RemoveBlob that clears the directory the mirror file of the key lies in.
RemoveBlobClearsShard(key, removeErr) ==
    /\ blobs' = MapDelete(blobs, key)
    /\ tasks' = Detach(tasks, key)
    /\ disk' = IF removeErr THEN disk
               ELSE LET dir(f) == SubSeq(f, 1, Len(f) - 1)
                    IN [f \in {g \in DOMAIN disk :
                                 dir(g) # dir(getMetaFilePath(key))}
                        |-> disk[f]]

\* Lines 114-126, all with the lock held.  removeErr: os.Remove fails with
\* an error other than IsNotExist, and the file, if any, stays.
RemoveBlob(key, removeErr) ==
    /\ blobs' = MapDelete(blobs, key)
    /\ tasks' = Detach(tasks, key)
    /\ disk' = IF removeErr THEN disk
               ELSE [f \in DOMAIN disk \ {getMetaFilePath(key)} |-> disk[f]]

\* What RemoveBlob returns.
RemoveBlobResult(removeErr) == IF removeErr THEN "err" ELSE "nil"

\* An explicit (out-of-band) RemoveBlob call.
RemoveBlobStep(key, removeErr) ==
    /\ tracker = "ok"
    /\ RemoveBlob(key, removeErr)
    /\ last' = [last EXCEPT ![key] = "remove:" \o RemoveBlobResult(removeErr)]
    /\ UNCHANGED <<clock, tracker, cl, pcs, writers, env>>

\* A caller runs GetStats: lines 268-280 as one step under the read lock.
GetStatsStep ==
    /\ tracker = "ok"
    /\ stats' = <<GetStats(blobs)>>
    /\ UNCHANGED <<clock, tracker, blobs, disk, tasks, cl, pcs, writers, last,
                   stopCleanup, ctx, hooks, inPath, extracted>>

(***************************************************************************)
(* StartCleanup and runCleanup.                                            *)
(***************************************************************************)
\* The orders in which a range over a Go map may yield the keys of S.
Orders(S) ==
    {o \in [1..Cardinality(S) -> S] : \A i, j \in DOMAIN o : o[i] = o[j] => i = j}

StartCleanup ==
    /\ tracker = "ok"
    /\ cl.pc = "off"
    /\ cl' = Cleanup("idle", <<>>, 0, 0, 0)
    /\ UNCHANGED <<clock, tracker, blobs, disk, tasks, pcs, writers, last, env>>

\* A tick whose expiry query drops the entries it finds expired.
CleanupTickEvicts ==
    /\ cl.pc = "idle"
    /\ LET expired == GetExpiredBlobs(blobs, clock)
       IN /\ blobs' = [k \in DOMAIN blobs \ expired |-> blobs[k]]
          /\ IF expired = {}
             THEN cl' = Cleanup("idle", <<>>, 0, 0, 0)
             ELSE \E o \in Orders(expired) : cl' = Cleanup("delete", o, 1, 0, 0)
    /\ UNCHANGED <<clock, tracker, disk, tasks, pcs, writers, last, env>>

\* <-ticker.C: runCleanup takes its snapshot (lines 156-165).
CleanupTick ==
    /\ cl.pc = "idle"
    /\ LET expired == GetExpiredBlobs(blobs, clock)
       IN IF expired = {}
          THEN cl' = Cleanup("idle", <<>>, 0, 0, 0)
          ELSE \E o \in Orders(expired) : cl' = Cleanup("delete", o, 1, 0, 0)
    /\ UNCHANGED <<clock, tracker, blobs, disk, tasks, pcs, writers, last, env>>

\* The loop moves on from expired[i]: to the next key, or to the log line
\* of line 187.
CleanupNext(deletedCount, totalSize) ==
    IF cl.i < Len(cl.expired)
    THEN Cleanup("delete", cl.expired, cl.i + 1, deletedCount, totalSize)
    ELSE Cleanup("report", cl.expired, cl.i + 1, deletedCount, totalSize)

\* A loop that drops the key although deleteFunc returned an error.
CleanupDeleteFailRemoves ==
    /\ cl.pc = "delete"
    /\ RemoveBlob(cl.expired[cl.i], FALSE)
    /\ cl' = CleanupNext(cl.deletedCount, cl.totalSize)
    /\ UNCHANGED <<clock, tracker, pcs, writers, last, env>>

\* Lines 168-171: deleteFunc returns an error; log and continue.
CleanupDeleteFail ==
    /\ cl.pc = "delete"
    /\ cl' = CleanupNext(cl.deletedCount, cl.totalSize)
    /\ UNCHANGED <<clock, tracker, blobs, disk, tasks, pcs, writers, last, env>>

\* Line 168: deleteFunc returns nil.
CleanupDeleteOk ==
    /\ cl.pc = "delete"
    /\ cl' = [cl EXCEPT !.pc = "size"]
    /\ UNCHANGED <<clock, tracker, blobs, disk, tasks, pcs, writers, last, env>>

\* Lines 174-178: the size of the entry, if it is still there.
CleanupSize ==
    /\ cl.pc = "size"
    /\ LET key == cl.expired[cl.i]
       IN cl' = [cl EXCEPT !.pc = "remove",
                           !.totalSize = IF key \in DOMAIN blobs
                                         THEN @ + blobs[key].Size ELSE @]
    /\ UNCHANGED <<clock, tracker, blobs, disk, tasks, pcs, writers, last, env>>

\* Lines 180-184: RemoveBlob; its error is logged; deletedCount++.
CleanupRemove(removeErr) ==
    /\ cl.pc = "remove"
    /\ RemoveBlob(cl.expired[cl.i], removeErr)
    /\ cl' = CleanupNext(cl.deletedCount + 1, cl.totalSize)
    /\ last' = [last EXCEPT ![cl.expired[cl.i]] =
                  "cleanup:" \o RemoveBlobResult(removeErr)]
    /\ UNCHANGED <<clock, tracker, pcs, writers, env>>

\* A cycle that, at its end, runs over its snapshot again without a tick.
CleanupReportRestarts ==
    /\ cl.pc = "report"
    /\ cl' = Cleanup("delete", cl.expired, 1, 0, 0)
    /\ UNCHANGED <<clock, tracker, blobs, disk, tasks, pcs, writers, last, env>>

\* Line 187: the cycle reports and returns into the select.
CleanupReport ==
    /\ cl.pc = "report"
    /\ cl' = Cleanup("idle", <<>>, 0, 0, 0)
    /\ UNCHANGED <<clock, tracker, blobs, disk, tasks, pcs, writers, last, env>>

(***************************************************************************)
(* Stopping the cleanup loop.                                              *)
(***************************************************************************)
\* A loop that leaves at the signal wherever it stands, a cycle included.
CleanupExitAnywhere ==
    /\ cl.pc \notin {"off", "exited"}
    /\ stopCleanup = "closed" \/ ctx = "done"
    /\ cl' = Cleanup("exited", <<>>, 0, 0, 0)
    /\ UNCHANGED <<clock, tracker, blobs, disk, tasks, pcs, writers, last, env>>

\* Lines 141-146: the select takes <-ctx.Done() or <-t.stopCleanup; the
\* goroutine returns and its deferred wg.Done() runs.  (The select may as
\* well take a tick that is ready: CleanupTick stays possible.)
CleanupExit ==
    /\ cl.pc = "idle"
    /\ stopCleanup = "closed" \/ ctx = "done"
    /\ cl' = Cleanup("exited", <<>>, 0, 0, 0)
    /\ UNCHANGED <<clock, tracker, blobs, disk, tasks, pcs, writers, last, env>>

\* t.wg's counter: one for the goroutine of StartCleanup while it lives.
WaitGroup == IF cl.pc \in {"off", "exited"} THEN 0 ELSE 1

\* Line 192: close(t.stopCleanup); the caller then blocks in t.wg.Wait().
StopCleanupCall(p) ==
    /\ tracker = "ok"
    /\ pcs[p].state = "idle"
    /\ stopCleanup = "open"
    /\ stopCleanup' = "closed"
    /\ pcs' = [pcs EXCEPT ![p] =
                 Proc("wait", "StopCleanup", "", 0, 0, "none", "none")]
    /\ UNCHANGED <<clock, tracker, blobs, disk, tasks, cl, writers, last,
                   ctx, hooks, inPath, extracted, stats>>

\* A StopCleanup that does not wait for the goroutine.
StopCleanupReturnsAtOnce(p) ==
    /\ pcs[p].state = "wait" /\ pcs[p].op = "StopCleanup"
    /\ pcs' = [pcs EXCEPT ![p] =
                 Proc("done", "StopCleanup", "", 0, 0, "none", "ok")]
    /\ UNCHANGED <<clock, tracker, blobs, disk, tasks, cl, writers, last, env>>

\* Line 193: t.wg.Wait() returns once the counter is zero.
StopCleanupReturn(p) ==
    /\ pcs[p].state = "wait" /\ pcs[p].op = "StopCleanup"
    /\ WaitGroup = 0
    /\ pcs' = [pcs EXCEPT ![p] =
                 Proc("done", "StopCleanup", "", 0, 0, "none", "ok")]
    /\ UNCHANGED <<clock, tracker, blobs, disk, tasks, cl, writers, last, env>>

\* The owner of the context handed to StartCleanup cancels it.
CancelCtx ==
    /\ ctx = "live"
    /\ ctx' = "done"
    /\ UNCHANGED <<clock, tracker, blobs, disk, tasks, cl, pcs, writers, last,
                   stopCleanup, hooks, inPath, extracted, stats>>

(***************************************************************************)
(* A restart of the process: the goroutines are gone, a new tracker is     *)
(* built over the same metadata directory.                                 *)
(***************************************************************************)
Restart ==
    /\ tracker' = "ok"
    /\ blobs' = NewLRUTracker(disk)
    /\ tasks' = EmptyBag
    /\ cl' = CleanupOff
    /\ pcs' = [p \in Procs |-> Idle]
    /\ writers' = {}
    /\ stopCleanup' = "open"
    /\ ctx' = "live"
    /\ stats' = <<>>
    /\ UNCHANGED <<clock, disk, last, hooks, inPath, extracted>>

(***************************************************************************)
(* Callers observed call by call: RecordAccess split at t.mu.Lock().       *)
(***************************************************************************)
\* p calls RecordAccess(key, size) on the tracker and blocks at line 64.
RecordAccessCall(p, key, size) ==
    /\ tracker = "ok"
    /\ pcs[p].state = "idle"
    /\ pcs' = [pcs EXCEPT ![p] =
                 Proc("lock", "RecordAccess", key, size, clock, "none", "none")]
    /\ UNCHANGED <<clock, tracker, blobs, disk, tasks, cl, writers, last, env>>

\* A timestamp read on entry, before the lock is taken.
RecordAccessNowAtEntry(p) == pcs[p].stamp

\* Line 68: time.Now() is read with the lock held.
RecordAccessNow(p) == clock

\* A RecordAccess that updates the map and starts no saveMetadata.
RecordAccessLockedNoSave(p) ==
    /\ pcs[p].state = "lock"
    /\ NumTasks < MaxTasks
    /\ LET now == RecordAccessNow(p)
       IN /\ blobs' = RecordAccess(blobs, pcs[p].key, pcs[p].size, now)
          /\ last' = [last EXCEPT ![pcs[p].key] = "record"]
          /\ pcs' = [pcs EXCEPT ![p] =
                       Proc("done", pcs[p].op, pcs[p].key, pcs[p].size, now,
                            pcs[p].store, "ok")]
    /\ UNCHANGED <<clock, tracker, disk, tasks, cl, writers, env>>

\* Lines 64-84 for p: lock, timestamp, map update, `go saveMetadata`,
\* unlock, return nil (the operation that called it then returns success).
RecordAccessLocked(p) ==
    /\ pcs[p].state = "lock"
    /\ NumTasks < MaxTasks
    /\ LET now == RecordAccessNow(p)
       IN /\ RecordAccessBody(pcs[p].key, pcs[p].size, now)
          /\ pcs' = [pcs EXCEPT ![p] =
                       Proc("done", pcs[p].op, pcs[p].key, pcs[p].size, now,
                            pcs[p].store, "ok")]
    /\ UNCHANGED <<clock, tracker, disk, cl, writers, env>>

\* The caller takes the result and is free for its next call.
Return(p) ==
    /\ pcs[p].state = "done"
    /\ pcs' = [pcs EXCEPT ![p] = Idle]
    /\ UNCHANGED <<clock, tracker, blobs, disk, tasks, cl, writers, last, env>>

(***************************************************************************)
(* The wrapping Driver.  out is what the wrapped store's operation         *)
(* answers, stat what its Stat answers, size the length it reports.        *)
(***************************************************************************)
\* The operation returns to its caller what the store answered.
Done(op, out) == Proc("done", op, "", 0, 0, out, out)

\* lru.tracker.RecordAccess(dgst, size) inside a driver operation whose
\* store call succeeded: a nil tracker panics at t.mu.Lock(); otherwise the
\* caller blocks at the lock.
Track(op, dgst, size) ==
    IF tracker = "nil"
    THEN Proc("done", op, dgst, size, 0, "ok", "panic")
    ELSE Proc("lock", op, dgst, size, clock, "ok", "none")

\* Driver.recordWrite: Stat the path, RecordWrite on success.
recordWrite(op, dgst, stat, size) ==
    IF stat = "ok" THEN Track(op, dgst, size) ELSE Done(op, "ok")

\* A GetContent that records the access before it looks at the store's error.
GetContentTracksFirst(p, path, out, size) ==
    /\ pcs[p].state = "idle"
    /\ LET dgst == PathDigest[path]
       IN pcs' = [pcs EXCEPT ![p] =
                    IF dgst # "" /\ tracker = "ok"
                    THEN Proc("lock", "GetContent", dgst, size, clock, out, "none")
                    ELSE Done("GetContent", out)]
    /\ UNCHANGED <<clock, tracker, blobs, disk, tasks, cl, writers, last, env>>

GetContent(p, path, out, size) ==
    /\ pcs[p].state = "idle"
    /\ LET dgst == PathDigest[path]
       IN pcs' = [pcs EXCEPT ![p] =
                    IF out # "ok" THEN Done("GetContent", out)
                    ELSE IF dgst # "" THEN Track("GetContent", dgst, size)
                    ELSE Done("GetContent", "ok")]
    /\ UNCHANGED <<clock, tracker, blobs, disk, tasks, cl, writers, last, env>>

\* A Reader that records the access although Stat failed, with no size.
ReaderRecordsOnStatError(p, path, out, stat, size) ==
    /\ pcs[p].state = "idle"
    /\ LET dgst == PathDigest[path]
       IN pcs' = [pcs EXCEPT ![p] =
                    IF out # "ok" THEN Done("Reader", out)
                    ELSE IF dgst # ""
                         THEN Track("Reader", dgst,
                                    IF stat = "ok" THEN size ELSE 0)
                    ELSE Done("Reader", "ok")]
    /\ UNCHANGED <<clock, tracker, blobs, disk, tasks, cl, writers, last, env>>

Reader(p, path, out, stat, size) ==
    /\ pcs[p].state = "idle"
    /\ LET dgst == PathDigest[path]
       IN pcs' = [pcs EXCEPT ![p] =
                    IF out # "ok" THEN Done("Reader", out)
                    ELSE IF dgst # "" /\ stat = "ok"
                         THEN Track("Reader", dgst, size)
                    ELSE Done("Reader", "ok")]
    /\ UNCHANGED <<clock, tracker, blobs, disk, tasks, cl, writers, last, env>>

\* A Writer that records the write as soon as the handle is open.
WriterRecords(p, path, out) ==
    /\ pcs[p].state = "idle"
    /\ \A w \in writers : w.path # path
    /\ writers' = IF out # "ok" THEN writers
                  ELSE writers \cup {Handle(path, PathDigest[path], FALSE)}
    /\ pcs' = [pcs EXCEPT ![p] =
                 IF out = "ok" /\ PathDigest[path] # "" /\ tracker = "ok"
                 THEN Proc("lock", "Writer", PathDigest[path], 1, clock, "ok", "none")
                 ELSE Done("Writer", out)]
    /\ UNCHANGED <<clock, tracker, blobs, disk, tasks, cl, last, env>>

\* One handle is open per path at a time.
Writer(p, path, out) ==
    /\ pcs[p].state = "idle"
    /\ \A w \in writers : w.path # path
    /\ writers' = IF out # "ok" THEN writers
                  ELSE writers \cup
                       {Handle(path, PathDigest[path], FALSE)}
    /\ pcs' = [pcs EXCEPT ![p] = Done("Writer", out)]
    /\ UNCHANGED <<clock, tracker, blobs, disk, tasks, cl, last, env>>

\* Cancel and Close are the embedded FileWriter's own methods.
WriterCancel(p, w, out) ==
    /\ pcs[p].state = "idle"
    /\ w \in writers /\ ~w.committed
    /\ writers' = writers \ {w}
    /\ pcs' = [pcs EXCEPT ![p] = Done("Cancel", out)]
    /\ UNCHANGED <<clock, tracker, blobs, disk, tasks, cl, last, env>>

WriterClose(p, w, out) ==
    /\ pcs[p].state = "idle"
    /\ w \in writers
    /\ writers' = writers \ {w}
    /\ pcs' = [pcs EXCEPT ![p] = Done("Close", out)]
    /\ UNCHANGED <<clock, tracker, blobs, disk, tasks, cl, last, env>>

Commit(p, w, out, stat, size) ==
    /\ pcs[p].state = "idle"
    /\ w \in writers /\ ~w.committed
    /\ writers' = IF out # "ok" THEN writers
                  ELSE (writers \ {w}) \cup {Handle(w.path, w.digest, TRUE)}
    /\ pcs' = [pcs EXCEPT ![p] =
                 IF out # "ok" THEN Done("Commit", out)
                 ELSE IF w.digest # ""
                      THEN recordWrite("Commit", w.digest, stat, size)
                 ELSE Done("Commit", "ok")]
    /\ UNCHANGED <<clock, tracker, blobs, disk, tasks, cl, last, env>>

\* PutContent is not defined on Driver: the call goes to the embedded
\* StorageDriver, which writes the whole content, and returns its answer.
PutContent(p, path, out) ==
    /\ pcs[p].state = "idle"
    /\ pcs' = [pcs EXCEPT ![p] = Done("PutContent", out)]
    /\ UNCHANGED <<clock, tracker, blobs, disk, tasks, cl, writers, last, env>>

Move(p, sourcePath, destPath, out, stat, size) ==
    /\ pcs[p].state = "idle"
    /\ LET dgst == PathDigest[destPath]
       IN pcs' = [pcs EXCEPT ![p] =
                    IF out # "ok" THEN Done("Move", out)
                    ELSE IF dgst # ""
                         THEN recordWrite("Move", dgst, stat, size)
                    ELSE Done("Move", "ok")]
    /\ UNCHANGED <<clock, tracker, blobs, disk, tasks, cl, writers, last, env>>

(***************************************************************************)
(* The server of the server package around the driver.                     *)
(***************************************************************************)
\* cacheServer.Start: the HTTP servers are started and the caller blocks in
\* the select of line 196.  Nothing here touches the tracker.
ServerStart(p) ==
    /\ pcs[p].state = "idle"
    /\ pcs' = [pcs EXCEPT ![p] = Proc("wait", "Start", "", 0, 0, "none", "none")]
    /\ UNCHANGED <<clock, tracker, blobs, disk, tasks, cl, writers, last, env>>

\* The server accepts requests: some caller is blocked in Start.
Serving == \E p \in Procs : pcs[p].op = "Start" /\ pcs[p].state = "wait"

\* A signal arrives: Start calls Shutdown (lines 199-238), which shuts the
\* HTTP server and the handler down, and returns.
ServerShutdown(p) ==
    /\ pcs[p].op = "Start" /\ pcs[p].state = "wait"
    /\ pcs' = [pcs EXCEPT ![p] = Proc("done", "Start", "", 0, 0, "none", "ok")]
    /\ UNCHANGED <<clock, tracker, blobs, disk, tasks, cl, writers, last, env>>

(***************************************************************************)
(* The specifications.                                                     *)
(***************************************************************************)
TaskStep ==
    \E t \in BagToSet(tasks) :
        \/ SaveRead(t)
        \/ SaveMarshal(t)
        \/ SaveWrite(t)
        \/ SaveWriteFail(t)

CleanupStep ==
    \/ StartCleanup
    \/ CleanupTick
    \/ CleanupDeleteFail
    \/ CleanupDeleteOk
    \/ CleanupSize
    \/ \E removeErr \in BOOLEAN : CleanupRemove(removeErr)
    \/ CleanupReport

RecordStep ==
    \E key \in Keys, size \in Sizes :
        \/ RecordAccessStep(key, size)
        \/ RecordWriteStep(key, size)

\* Spec: the tracker's operations, its persistence goroutines, restarts.
Next ==
    \/ Tick
    \/ RecordStep
    \/ \E key \in Keys, removeErr \in BOOLEAN : RemoveBlobStep(key, removeErr)
    \/ TaskStep
    \/ Restart

Spec == Init /\ [][Next]_vars

\* SpecCleanup: the tracker with its cleanup loop.
NextCleanup ==
    \/ Tick
    \/ RecordStep
    \/ TaskStep
    \/ CleanupStep

SpecCleanup == Init /\ [][NextCleanup]_vars

\* SpecRemove: the two ways to RemoveBlob, the cleanup loop and explicit
\* calls beside it, on the one key KeyA.
NextRemove ==
    \/ Tick
    \/ \E size \in Sizes : RecordAccessStep(KeyA, size)
    \/ TaskStep
    \/ CleanupStep
    \/ \E removeErr \in BOOLEAN : RemoveBlobStep(KeyA, removeErr)

SpecRemove == Init /\ [][NextRemove]_vars

\* SpecBurst: bursts of accesses to KeyA and their saveMetadata goroutines
\* in every interleaving; no file operation fails and nothing is removed.
BurstTaskStep ==
    \E t \in BagToSet(tasks) :
        \/ SaveRead(t)
        \/ SaveMarshal(t)
        \/ SaveWrite(t)

NextBurst ==
    \/ Tick
    \/ \E size \in Sizes : BurstRecord(KeyA, size)
    \/ BurstTaskStep

SpecBurst == Init /\ [][NextBurst]_vars

\* SpecSize: accesses and writes of KeyA that report one length or another.
NextSize ==
    \/ Tick
    \/ \E size \in ReportedSizes : RecordAccessStep(KeyA, size)
    \/ \E size \in ReportedSizes : RecordWriteStep(KeyA, size)
    \/ TaskStep

SpecSize == Init /\ [][NextSize]_vars

\* SpecStats: entries of two keys and two sizes come and go while callers
\* ask for the statistics.
NextStats ==
    \/ \E key \in Keys, size \in ReportedSizes : RecordAccessStep(key, size)
    \/ TaskStep
    \/ \E key \in Keys, removeErr \in BOOLEAN : RemoveBlobStep(key, removeErr)
    \/ GetStatsStep

SpecStats == Init /\ [][NextStats]_vars

\* SpecFrame: two digests are recorded, go past their TTL and are removed,
\* by cleanup cycles and by explicit calls.
NextFrame ==
    \/ Tick
    \/ clock = 0 /\ \E key \in LoopKeys, size \in Sizes :
                       RecordAccessStep(key, size)
    \/ TaskStep
    \/ CleanupStep
    \/ \E key \in LoopKeys, removeErr \in BOOLEAN :
          RemoveBlobStep(key, removeErr)

SpecFrame == Init /\ [][NextFrame]_vars

\* SpecConcurrent: callers racing for the tracker's lock.
NextConcurrent ==
    \/ Tick
    \/ \E p \in Procs, size \in Sizes : RecordAccessCall(p, KeyA, size)
    \/ \E p \in Procs : RecordAccessLocked(p) \/ Return(p)
    \/ TaskStep

SpecConcurrent == Init /\ [][NextConcurrent]_vars

\* SpecDriver: the server's driver over its tracker.
DriverStep(p) ==
    \E out \in Outcomes, stat \in Outcomes, size \in Sizes :
        \/ \E path \in Paths :
              \/ GetContent(p, path, out, size)
              \/ Reader(p, path, out, stat, size)
              \/ Writer(p, path, out)
              \/ PutContent(p, path, out)
        \/ \E w \in writers :
              \/ WriterCancel(p, w, out)
              \/ WriterClose(p, w, out)
              \/ Commit(p, w, out, stat, size)
        \/ \E sourcePath \in Paths, destPath \in Paths :
              Move(p, sourcePath, destPath, out, stat, size)

NextDriver ==
    \/ Tick
    \/ DriverStep("p1")
    \/ \E p \in Procs : RecordAccessLocked(p) \/ Return(p)
    \/ TaskStep

SpecDriver == InitServer /\ [][NextDriver]_vars

\* Fairness of the cleanup goroutine: the ticker keeps ticking; each step
\* of a cycle is taken once it is possible (the delete callback returns);
\* a select that finds a signal ready again and again takes it in the end
\* (Go chooses among the ready cases at random); and a callback that is
\* invoked for a key again and again succeeds in the end.
FairLoop ==
    /\ WF_vars(CleanupTick)
    /\ WF_vars(CleanupDeleteOk \/ CleanupDeleteFail)
    /\ WF_vars(CleanupSize)
    /\ WF_vars(\E removeErr \in BOOLEAN : CleanupRemove(removeErr))
    /\ WF_vars(CleanupReport)
    /\ SF_vars(CleanupExit)
    /\ \A k \in Keys \cup LoopKeys :
          SF_vars(CleanupDeleteOk /\ cl.expired[cl.i] = k)

\* SpecRetry: the steps of SpecCleanup, a loop that is never stopped, under
\* the fairness of the cleanup goroutine.
SpecRetry == Init /\ [][NextCleanup]_vars /\ FairLoop

\* SpecLoop: the cleanup loop from StartCleanup to its exit, over two keys
\* that can expire.  The keys are accessed before the clock first moves
\* (accesses that race a cycle are in SpecCleanup).  StopCleanup is called
\* on a loop that was started, as Shutdown follows Start.
NextLoop ==
    \/ Tick
    \/ clock = 0 /\ \E key \in LoopKeys, size \in Sizes :
                       RecordAccessStep(key, size)
    \/ TaskStep
    \/ CleanupStep
    \/ CleanupExit
    \/ cl.pc # "off" /\ StopCleanupCall("p1")
    \/ StopCleanupReturn("p1")
    \/ CancelCtx

SpecLoop == Init /\ [][NextLoop]_vars /\ FairLoop

\* SpecExtract: extractDigestFromPath applied to a path; extracted holds its
\* result once it has returned.
Extract ==
    /\ extracted = <<>>
    /\ extracted' = <<extractDigestFromPath(inPath)>>
    /\ UNCHANGED <<clock, tracker, blobs, disk, tasks, cl, pcs, writers, last,
                   stopCleanup, ctx, hooks, inPath, stats>>

SpecExtract == InitExtract /\ [][Extract]_vars

\* SpecServer: server.New, then Start; requests reach the driver while the
\* server is serving.
NextServer ==
    \/ Tick
    \/ ServerStart("p2")
    \/ ServerShutdown("p2")
    \/ Serving /\ DriverStep("p1")
    \/ RecordAccessLocked("p1")
    \/ Return("p1")
    \/ TaskStep

SpecServer == InitServer /\ [][NextServer]_vars

(***************************************************************************)
(* Properties of one running tracker (SpecCleanup).                        *)
(***************************************************************************)
\* The step is a RecordAccess/RecordWrite on k: the one step that starts a
\* saveMetadata(k) goroutine.
Recorded(k) == tasks' = tasks (+) SetToBag({NewTask(k)})

\* C1: a RecordAccess/RecordWrite on a key leaves the key tracked with
\* LastAccessed equal to the timestamp that call took, whether it created the
\* entry or updated it; in every other step the LastAccessed of a key that
\* stays tracked does not change, so it equals the timestamp of the most
\* recent call and never decreases.
C1_LastAccessedIsLatestCall ==
    [][\A k \in Keys :
          /\ Recorded(k) =>
                k \in DOMAIN blobs' /\ blobs'[k].LastAccessed = clock
          /\ (k \in DOMAIN blobs /\ k \in DOMAIN blobs') =>
                /\ blobs'[k].LastAccessed >= blobs[k].LastAccessed
                /\ ~Recorded(k) =>
                      blobs'[k].LastAccessed = blobs[k].LastAccessed]_vars

\* C1 witness: a key accessed again after the call that created its entry.
C1_Witness ==
    \E k \in DOMAIN blobs :
        /\ last[k] = "record"
        /\ blobs[k].LastAccessed > blobs[k].CreatedAt
        /\ blobs[k].LastAccessed = clock

(***************************************************************************)
(* Properties of the tracker across removals and restarts (Spec).          *)
(***************************************************************************)
\* C2: GetExpiredBlobs returns exactly the tracked keys whose LastAccessed
\* lies more than ttl before now.
C2_ExpiredExactly ==
    GetExpiredBlobs(blobs, clock) =
        {k \in DOMAIN blobs : clock - blobs[k].LastAccessed > ttl}

\* C8: a tracked key whose mirror file holds its current entry is loaded by
\* a new tracker over the same directory with the same four fields.
C8_RoundTrip ==
    \A k \in DOMAIN blobs :
        (/\ getMetaFilePath(k) \in DOMAIN disk
         /\ disk[getMetaFilePath(k)] = Marshal(blobs[k]))
        => (/\ k \in DOMAIN NewLRUTracker(disk)
            /\ NewLRUTracker(disk)[k] = blobs[k])

\* C9: once RemoveBlob(k) has returned nil and k has not been recorded
\* since, a new tracker over the same directory has no entry for k.
C9_NoResurrection ==
    \A k \in Keys :
        last[k] = "remove:nil" => k \notin DOMAIN NewLRUTracker(disk)

(***************************************************************************)
(* Properties of the cleanup loop (SpecCleanup).                           *)
(***************************************************************************)
\* The cleanup goroutine takes a step out of the given place of its loop.
CleanupLeaves(pc) == cl.pc = pc /\ cl' # cl

\* C3: the step in which deleteFunc fails for expired[i] changes neither the
\* map nor the mirror files nor the goroutines; and a key that
\* GetExpiredBlobs returns is returned in the next state too, unless the
\* step records an access to it or is the loop's RemoveBlob for it, which is
\* reached only after deleteFunc succeeded for it.
C3_FailedDeleteKeepsKey ==
    [][/\ (CleanupLeaves("delete") /\ cl'.pc # "size") =>
              UNCHANGED <<blobs, disk, tasks>>
       /\ \A k \in Keys :
             (/\ k \in GetExpiredBlobs(blobs, clock)
              /\ ~Recorded(k)
              /\ ~(CleanupLeaves("remove") /\ cl.expired[cl.i] = k))
             => k \in GetExpiredBlobs(blobs', clock')
       /\ (CleanupLeaves("delete") /\ cl'.pc = "size") =>
              cl'.expired = cl.expired /\ cl'.i = cl.i
       /\ cl'.pc = "remove" =>
              cl.pc \in {"size", "remove"} /\ cl'.expired = cl.expired
              /\ cl'.i = cl.i]_vars

\* C3 witness: a cycle is over in which deleteFunc failed for every key of
\* the snapshot, and its first key is still tracked, still expired, and
\* still has its mirror file.
C3_Witness ==
    /\ cl.pc = "report"
    /\ cl.deletedCount = 0
    /\ cl.expired # <<>>
    /\ cl.expired[1] \in GetExpiredBlobs(blobs, clock)
    /\ getMetaFilePath(cl.expired[1]) \in DOMAIN disk

\* C4: after the cleanup loop removed k (deleteFunc succeeded, RemoveBlob
\* returned nil) and with no RecordAccess/RecordWrite on k since, k is not
\* in the map and has no mirror file.
C4_CleanedStaysGone ==
    \A k \in Keys :
        last[k] = "cleanup:nil" =>
            k \notin DOMAIN blobs /\ getMetaFilePath(k) \notin DOMAIN disk

(***************************************************************************)
(* Properties of the wrapping Driver (SpecDriver).                         *)
(***************************************************************************)
\* p's operation is called in this step.
Called(p) == pcs[p].state = "idle" /\ pcs'[p].state # "idle"

TrackingOps == {"GetContent", "Reader", "Move", "Commit"}

\* C5: opening a writer, cancelling or closing it, and a Commit whose
\* wrapped Commit fails, return at once and leave the map, the goroutines
\* and the mirror files as they are; the only writer operation that ever
\* waits for the tracker is a Commit whose wrapped Commit succeeded, on a
\* handle opened on a blob path.
C5_OnlyCommitTracks ==
    [][\A p \in Procs :
          /\ (/\ Called(p)
              /\ \/ pcs'[p].op \in {"Writer", "Cancel", "Close"}
                 \/ pcs'[p].op = "Commit" /\ pcs'[p].store # "ok")
             => pcs'[p].state = "done" /\ UNCHANGED <<blobs, tasks, disk>>
          /\ (Called(p) /\ pcs'[p].state = "lock" /\ pcs'[p].op = "Commit")
             => \E w \in writers :
                   /\ ~w.committed /\ w.digest = pcs'[p].key /\ w.digest # ""
                   /\ Handle(w.path, w.digest, TRUE) \in writers'
          /\ pcs'[p].state = "lock" => pcs'[p].op \in TrackingOps]_vars

\* C5 witness: the one open handle is on the blob path of KeyA, its Commit
\* has just failed, and the tracker has no entry for KeyA.
C5_Witness ==
    /\ tracker = "ok"
    /\ writers = {Handle(BlobPathA, KeyA, FALSE)}
    /\ pcs["p1"].state = "done" /\ pcs["p1"].op = "Commit"
    /\ pcs["p1"].store \in Errors
    /\ KeyA \notin DOMAIN blobs
    /\ tasks = EmptyBag

\* C6: an operation whose wrapped store call fails returns at once with the
\* store's error and changes neither the map nor the goroutines nor the
\* mirror files; a caller waits for the tracker only after its store call
\* succeeded, and the map changes only in the step of such a caller.
C6_FailurePropagates ==
    [][/\ \A p \in Procs :
             /\ (Called(p) /\ pcs'[p].store \in Errors) =>
                   /\ pcs'[p].state = "done"
                   /\ pcs'[p].ret = pcs'[p].store
                   /\ UNCHANGED <<blobs, tasks, disk>>
             /\ pcs'[p].state = "lock" => pcs'[p].store = "ok"
       /\ (blobs' # blobs \/ \E k \in Keys : Recorded(k)) =>
             \E p \in Procs :
                 /\ pcs[p].state = "lock" /\ pcs[p].store = "ok"
                 /\ pcs'[p].state = "done"]_vars

\* C6 witness: with entries tracked, a store call has failed and the caller
\* holds the store's error.
C6_Witness ==
    \E p \in Procs :
        /\ pcs[p].state = "done"
        /\ pcs[p].store \in Errors
        /\ pcs[p].ret = pcs[p].store
        /\ KeyA \in DOMAIN blobs

\* C7: an operation whose wrapped store call succeeded returns success.
C7_SuccessStaysSuccess ==
    \A p \in Procs :
        (pcs[p].state = "done" /\ pcs[p].store = "ok") => pcs[p].ret = "ok"

(***************************************************************************)
(* Properties of concurrent callers (SpecConcurrent).                      *)
(***************************************************************************)
\* C10: the map holds each key once, under its own digest; the entry of a
\* key is never older than the timestamp of a RecordAccess on it that has
\* returned; and when two callers have both returned from RecordAccess on
\* one key, its LastAccessed is the later of their two timestamps.
C10_NoLostUpdate ==
    /\ \A k \in DOMAIN blobs : blobs[k].Digest = k
    /\ \A p \in Procs :
          pcs[p].state = "done" =>
             /\ pcs[p].key \in DOMAIN blobs
             /\ blobs[pcs[p].key].LastAccessed >= pcs[p].stamp
    /\ \A p, q \in Procs :
          (/\ p # q
           /\ pcs[p].state = "done" /\ pcs[q].state = "done"
           /\ pcs[p].key = pcs[q].key /\ pcs[p].stamp <= pcs[q].stamp)
          => blobs[pcs[q].key].LastAccessed = pcs[q].stamp

\* C10 witness: both callers have returned from RecordAccess on one key
\* with timestamps T1 < T2, and the one entry holds T2.
C10_Witness ==
    /\ pcs["p1"].state = "done" /\ pcs["p2"].state = "done"
    /\ pcs["p1"].key = pcs["p2"].key
    /\ pcs["p1"].stamp < pcs["p2"].stamp
    /\ DOMAIN blobs = {pcs["p1"].key}
    /\ blobs[pcs["p2"].key].LastAccessed = pcs["p2"].stamp

(***************************************************************************)
(* Properties of the running server (SpecServer).                          *)
(***************************************************************************)
\* C11: while the server is serving, the tracker's cleanup loop has been
\* started.
C11_CleanupWorkerRuns == Serving => cl.pc # "off"

\* C18: when an operation that recorded an access returns to its caller,
\* OnBlobAccess has been called with the key and the size recorded.
C18_AccessHookFired ==
    [][\A p \in Procs :
          (/\ pcs[p].state = "done" /\ pcs[p].op \in TrackingOps
           /\ pcs[p].ret = "ok" /\ pcs[p].key # ""
           /\ pcs'[p].state = "idle")
          => <<"OnBlobAccess", pcs[p].key, pcs[p].size>> \in hooks']_vars

\* C19: a server whose tracker could not be constructed does not serve.
C19_NoServerWithoutTracker == tracker = "nil" => ~Serving

(***************************************************************************)
(* Properties of the cleanup loop (SpecRetry, SpecLoop).                   *)
(***************************************************************************)
\* A tracked key whose last access lies more than ttl back.
PastTTL(k) == k \in DOMAIN blobs /\ clock - blobs[k].LastAccessed > ttl

\* C12: deletion is retried indefinitely: while the loop runs, a key past its
\* TTL is handed to the delete callback tick after tick, so that, the
\* callback succeeding in the end, the key leaves the tracker (or is
\* accessed again and is no longer expired).
C12_RetriedUntilRemoved ==
    \A k \in Keys : (PastTTL(k) /\ cl.pc # "off") ~> ~PastTTL(k)

\* StopCleanup has returned to its caller.
StopReturned ==
    \E p \in Procs : pcs[p].op = "StopCleanup" /\ pcs[p].state = "done"

\* C13: StopCleanup returns only when the loop goroutine has exited, no
\* cycle being in flight; from then on the loop takes no step: no cycle
\* starts and the delete callback is not invoked.
C13_StopWaitsAndEnds ==
    [][/\ StopReturned' => cl'.pc = "exited"
       /\ StopReturned => cl' = cl]_vars

\* StopCleanup has returned while a tracked key is past its TTL: a further
\* tick would have had a key to delete.
C13_Witness ==
    /\ StopReturned
    /\ cl.pc = "exited"
    /\ \E k \in LoopKeys : PastTTL(k)

\* The stop channel is closed or the context is cancelled.
Signalled == stopCleanup = "closed" \/ ctx = "done"

\* The loop is inside a cycle, at a key of its snapshot.
InCycle == cl.pc \in {"delete", "size", "remove"}

\* C14: the loop leaves only between ticks: it exits from the select and
\* nowhere else; a cycle keeps its snapshot, passes from one key to the next
\* only after a failed callback (the entries untouched, the key left for a
\* retry) or after RemoveBlob (the key gone from the tracker), and reports
\* only after the last key; and a signalled loop that waits in the select
\* exits in the end.
C14_ExitsBetweenTicks ==
    /\ [][/\ (cl'.pc = "exited" /\ cl.pc # "exited") => cl.pc = "idle"
          /\ (cl'.pc = "idle" /\ cl.pc \notin {"idle", "off"})
                => cl.pc = "report"
          /\ (InCycle /\ cl' # cl) =>
                /\ cl'.expired = cl.expired
                /\ cl'.i \in {cl.i, cl.i + 1}
                /\ cl'.i = cl.i + 1 =>
                      \/ cl.pc = "delete" /\ blobs' = blobs
                      \/ cl.pc = "remove"
                           /\ cl.expired[cl.i] \notin DOMAIN blobs'
                /\ cl'.i = cl.i => cl'.pc \in {"size", "remove"}
                /\ cl'.pc = "report" <=> cl'.i = Len(cl.expired) + 1]_vars
    /\ (Signalled /\ cl.pc = "idle") ~> cl.pc = "exited"

\* The signal is there while a cycle stands at the second key of its
\* snapshot: the cycle goes on.
C14_Witness ==
    /\ Signalled
    /\ cl.pc = "delete"
    /\ Len(cl.expired) = 2
    /\ cl.i = 2

(***************************************************************************)
(* Properties of the key extractor (SpecExtract).                          *)
(***************************************************************************)
\* extractDigestFromPath has returned key for inPath.
Extracted(key) == extracted # <<>> /\ extracted[1] = key

\* The shape of a blob content path: a "blobs" segment followed by an
\* algorithm segment, a shard segment of two characters and the segment of
\* the full digest.
HasBlobShape(path) ==
    LET parts == splitPath(path) IN
    \E i \in 1..Len(parts) :
        /\ parts[i] = "blobs"
        /\ i + 3 <= Len(parts)
        /\ Len(parts[i + 2]) = 2
        /\ digestParseOk(parts[i + 1] \o ":" \o parts[i + 3])

\* A path below <root>/repositories: a link, a manifest or an upload.
UnderRepositories(path) ==
    /\ Len(path) >= Len(Root) + 14
    /\ SubSeq(path, 1, Len(Root) + 14) = Root \o "/repositories/"

\* C15: a non-empty key comes out only for a path of the blob content
\* shape; the paths of a repository, whatever its name, and short, empty or
\* malformed paths yield the empty key.
C15_OnlyBlobContent ==
    (extracted # <<>> /\ ~Extracted(""))
        => HasBlobShape(inPath) /\ ~UnderRepositories(inPath)

\* The path is <prefix>/blobs/<algorithm>/<first two>/<digest>/data with a
\* valid digest, and key is "<algorithm>:<digest>".
IsBlobDataPathOf(path, key) ==
    LET parts == splitPath(path)
        n == Len(parts)
    IN /\ n >= 5
       /\ parts[n] = "data"
       /\ parts[n - 4] = "blobs"
       /\ parts[n - 2] = SubSeq(parts[n - 1], 1, 2)
       /\ digestParseOk(parts[n - 3] \o ":" \o parts[n - 1])
       /\ key = parts[n - 3] \o ":" \o parts[n - 1]

\* The keys of the blob content paths among the inputs.
BlobKeys == {d[1] \o ":" \o d[2] : d \in Digests}

\* C16: for a blob content path of the store with a valid digest,
\* extractDigestFromPath returns "<algorithm>:<digest>", the segment after
\* "blobs" and the third segment after it.
C16_BlobPathYieldsKey ==
    \A key \in BlobKeys :
        (extracted # <<>> /\ IsBlobDataPathOf(inPath, key)) => Extracted(key)

\* The extractor has returned KeyB for the content path of blob KeyB.
C16_Witness ==
    /\ inPath = BlobDataPath("sha256", HexB)
    /\ IsBlobDataPathOf(inPath, KeyB)
    /\ Extracted(KeyB)

(***************************************************************************)
(* Properties of Driver.Move (SpecDriver).                                 *)
(***************************************************************************)
\* C17: with a tracker in place, a Move that the store carried out goes on
\* to record the key of its destination path when that path addresses blob
\* content, whatever the source path, and the entry then carries the time of
\* the record; a Move to any other destination returns without a record.
C17_MoveRecordsDestination ==
    [][/\ \A p \in Procs, sourcePath \in Paths, destPath \in Paths,
            stat \in Outcomes, size \in Sizes :
            (tracker = "ok"
               /\ Move(p, sourcePath, destPath, "ok", stat, size))
            => IF PathDigest[destPath] # ""
               THEN /\ pcs'[p].state = "lock"
                    /\ pcs'[p].key = PathDigest[destPath]
               ELSE pcs'[p] = Done("Move", "ok")
       /\ \A p \in Procs :
            (pcs[p].op = "Move" /\ pcs[p].state = "lock"
               /\ pcs'[p].state = "done")
            => /\ pcs[p].key \in DOMAIN blobs'
               /\ blobs'[pcs[p].key].LastAccessed = pcs'[p].stamp]_vars

(***************************************************************************)
(* Properties of loadMetadata (Spec).                                      *)
(***************************************************************************)
\* C20: loadMetadata loads the entry of every mirror file that can be read
\* and parsed, and nothing else: the map it builds holds exactly the entries
\* of the parsable files.
C20_LoadsEveryParsableFile ==
    /\ \A f \in DOMAIN disk :
          LET meta == Unmarshal(disk[f]) IN
          /\ meta.Digest \in DOMAIN loadMetadata(disk)
          /\ loadMetadata(disk)[meta.Digest] = meta
    /\ \A k \in DOMAIN loadMetadata(disk) :
          \E f \in DOMAIN disk : Unmarshal(disk[f]) = loadMetadata(disk)[k]

(***************************************************************************)
(* Properties of RemoveBlob (SpecRemove).                                  *)
(***************************************************************************)
\* The step is the cleanup loop's RemoveBlob for k (lines 180-184).
CleanupRemoves(k) ==
    /\ cl.pc = "remove"
    /\ cl.expired[cl.i] = k
    /\ \E removeErr \in BOOLEAN : CleanupRemove(removeErr)

\* The step is an explicit RemoveBlob call for k.
ExplicitRemoves(k) == \E removeErr \in BOOLEAN : RemoveBlobStep(k, removeErr)

\* C21: a key leaves the map only in a RemoveBlob for it, called explicitly
\* or by the cleanup loop; the loop comes to its RemoveBlob for a key only
\* through the size lookup, and to that only from a delete callback that
\* succeeded for the same key.  No other step (RecordAccess, RecordWrite,
\* the expiry query of a tick, saveMetadata, a failed callback) takes a key
\* out; GetStats writes nothing and is no step.
C21_OnlyRemoveBlobRemoves ==
    [][/\ \A k \in Keys :
            (k \in DOMAIN blobs /\ k \notin DOMAIN blobs')
            => ExplicitRemoves(k) \/ CleanupRemoves(k)
       /\ (cl'.pc = "remove" /\ cl' # cl) =>
            cl.pc = "size" /\ cl'.expired = cl.expired /\ cl'.i = cl.i
       /\ (cl'.pc = "size" /\ cl' # cl) =>
            /\ cl.pc = "delete" /\ cl'.expired = cl.expired /\ cl'.i = cl.i
            /\ CleanupDeleteOk]_vars

\* The loop has removed KeyA in this cycle, after its callback succeeded.
C21_Witness ==
    /\ cl.pc = "report"
    /\ cl.deletedCount = 1
    /\ last[KeyA] = "cleanup:nil"
    /\ KeyA \notin DOMAIN blobs

\* C22: a RemoveBlob whose os.Remove does not fail, the file being absent
\* or removed, returns nil and leaves neither entry nor file; one whose
\* os.Remove fails otherwise returns the error, the files as they were and
\* the entry gone all the same.  The cleanup loop then counts the key as
\* deleted and goes on; no step of the loop puts a key into the map, and a
\* snapshot holds tracked keys only.
C22_RemoveErrorKeepsRemoval ==
    [][/\ \A k \in Keys, removeErr \in BOOLEAN :
            (RemoveBlobStep(k, removeErr)
               \/ (CleanupRemoves(k) /\ CleanupRemove(removeErr)))
            => /\ k \notin DOMAIN blobs'
               /\ removeErr =>
                     /\ disk' = disk
                     /\ last'[k] \in {"remove:err", "cleanup:err"}
               /\ ~removeErr =>
                     /\ getMetaFilePath(k) \notin DOMAIN disk'
                     /\ last'[k] \in {"remove:nil", "cleanup:nil"}
       /\ \A k \in Keys :
            CleanupRemoves(k) =>
               /\ cl' = CleanupNext(cl.deletedCount + 1, cl.totalSize)
               /\ cl'.expired = cl.expired
       /\ \A k \in Keys :
            (k \notin DOMAIN blobs /\ k \in DOMAIN blobs') => Recorded(k)
       /\ (cl.pc = "idle" /\ cl'.pc = "delete") =>
            \A j \in 1..Len(cl'.expired) : cl'.expired[j] \in DOMAIN blobs]_vars

\* The loop's RemoveBlob for KeyA returned an error: the entry is gone, the
\* mirror file is still there, and the cycle went on to its report.
C22_Witness ==
    /\ cl.pc = "report"
    /\ cl.deletedCount = 1
    /\ last[KeyA] = "cleanup:err"
    /\ KeyA \notin DOMAIN blobs
    /\ getMetaFilePath(KeyA) \in DOMAIN disk

(***************************************************************************)
(* Lock discipline (SpecRemove).  A section of code under t.mu is one      *)
(* step of the model.                                                      *)
(***************************************************************************)
\* The step is a section under t.mu.Lock(): RecordAccess/RecordWrite
\* (lines 64-84) or RemoveBlob (lines 114-126).
ExclusiveSection ==
    \E k \in Keys \cup LoopKeys :
        Recorded(k) \/ ExplicitRemoves(k) \/ CleanupRemoves(k)

\* C23: the map changes only in a section under the exclusive lock, and no
\* mirror file is written or removed in a section that holds the lock.
C23_MirrorIOOutsideLock ==
    [][/\ blobs' # blobs => ExclusiveSection
       /\ disk' # disk => ~ExclusiveSection]_vars

(***************************************************************************)
(* Properties of the call of RecordAccess (SpecConcurrent).                *)
(***************************************************************************)
\* C24: the step in which a caller leaves RecordAccess returns nil, leaves
\* the key tracked with the timestamp the call took, starts one
\* saveMetadata goroutine for the key and touches no mirror file; the steps
\* of the goroutines, failing writes included, leave the callers alone; and
\* a caller that has its result can go on, whatever the goroutines do.
C24_ReturnsWithoutWaiting ==
    /\ [][/\ \A p \in Procs :
               (pcs[p].state = "lock" /\ pcs'[p].state = "done")
               => /\ pcs'[p].ret = "ok"
                  /\ pcs[p].key \in DOMAIN blobs'
                  /\ blobs'[pcs[p].key].LastAccessed = pcs'[p].stamp
                  /\ Recorded(pcs[p].key)
                  /\ disk' = disk
          /\ (\E t \in BagToSet(tasks) :
                 SaveRead(t) \/ SaveMarshal(t) \/ SaveWrite(t)
                   \/ SaveWriteFail(t))
               => pcs' = pcs]_vars
    /\ [](\A p \in Procs : pcs[p].state = "done" => ENABLED Return(p))

\* A caller has its nil from RecordAccess on KeyA while the goroutine it
\* started has not yet read the map and KeyA has no mirror file.
C24_Witness ==
    \E p \in Procs :
        /\ pcs[p].state = "done"
        /\ pcs[p].op = "RecordAccess"
        /\ pcs[p].ret = "ok"
        /\ blobs[KeyA].LastAccessed = pcs[p].stamp
        /\ NewTask(KeyA) \in BagToSet(tasks)
        /\ getMetaFilePath(KeyA) \notin DOMAIN disk

(***************************************************************************)
(* Properties of the mirror after a burst (SpecBurst).                     *)
(***************************************************************************)
\* C25: once every saveMetadata goroutine has run, the mirror file of each
\* tracked key exists and holds the entry as it is in the map.
C25_MirrorCatchesUp ==
    tasks = EmptyBag =>
        \A k \in DOMAIN blobs :
            /\ getMetaFilePath(k) \in DOMAIN disk
            /\ Unmarshal(disk[getMetaFilePath(k)]) = blobs[k]

(***************************************************************************)
(* Properties of the fields of an entry (SpecCleanup).                     *)
(***************************************************************************)
\* C26: the RecordAccess/RecordWrite that creates the entry of a key sets
\* its Digest to the key and its CreatedAt to the time of the call; no step
\* changes either field of an entry that stays in the map.
C26_DigestAndCreatedAtFixed ==
    [][\A k \in Keys :
          /\ (Recorded(k) /\ k \notin DOMAIN blobs) =>
                /\ k \in DOMAIN blobs'
                /\ blobs'[k].Digest = k
                /\ blobs'[k].CreatedAt = clock
          /\ (k \in DOMAIN blobs /\ k \in DOMAIN blobs') =>
                /\ blobs'[k].Digest = blobs[k].Digest
                /\ blobs'[k].CreatedAt = blobs[k].CreatedAt]_vars

\* A key created at time 0 has been accessed again two clock steps later
\* and still carries the CreatedAt of its creation.
C26_Witness ==
    \E k \in DOMAIN blobs :
        /\ blobs[k].Digest = k
        /\ blobs[k].CreatedAt = 0
        /\ blobs[k].LastAccessed = 2
        /\ last[k] = "record"

(***************************************************************************)
(* Properties of the tracked size (SpecSize).                              *)
(***************************************************************************)
\* C27: after RecordAccess(key, s) or RecordWrite(key, s) the Size of the
\* entry of key is s, whether the call created the entry or found it.
C27_SizeIsLastReported ==
    [][\A k \in Keys, s \in ReportedSizes :
          (RecordAccessStep(k, s) \/ RecordWriteStep(k, s)) =>
              k \in DOMAIN blobs' /\ blobs'[k].Size = s]_vars

(***************************************************************************)
(* The scheduler as a state machine (SpecLoop).                            *)
(***************************************************************************)
\* Running: runCleanup has taken a non-empty snapshot and has not returned.
Running == cl.pc \in {"delete", "size", "remove", "report"}

\* C28: the started loop is Idle (in its select) or Running (inside the one
\* runCleanup of its goroutine).  A cycle starts only from Idle, by the
\* tick, at the first key of the snapshot GetExpiredBlobs returns then; a
\* running cycle keeps that snapshot and only moves forward in it, so no
\* second cycle starts beside or inside it; it leaves Running only for
\* Idle, after its report; and, each callback returning, every cycle comes
\* back to Idle.
C28_IdleRunningIdle ==
    /\ [][/\ cl'.pc \in {"off", "idle", "exited"} \/ Running'
          /\ (~Running /\ Running') =>
                /\ cl.pc = "idle"
                /\ CleanupTick
                /\ cl'.pc = "delete" /\ cl'.i = 1
                /\ {cl'.expired[j] : j \in 1..Len(cl'.expired)}
                      = GetExpiredBlobs(blobs, clock)
          /\ (Running /\ Running') =>
                cl'.expired = cl.expired /\ cl'.i >= cl.i
          /\ (Running /\ ~Running') =>
                cl.pc = "report" /\ cl'.pc = "idle"]_vars
    /\ (Running ~> cl.pc = "idle")

\* A cycle stands at its first key after an earlier cycle removed a key.
C28_Witness ==
    /\ cl.pc = "delete"
    /\ cl.i = 1
    /\ \E k \in LoopKeys : last[k] \in {"cleanup:nil", "cleanup:err"}

(***************************************************************************)
(* Coverage of the store's operations by the Driver (SpecDriver).          *)
(***************************************************************************)
\* C29: with a tracker in place and Stat answering, every operation that
\* reveals or creates the content of a blob path and that the store carried
\* out goes on to record the key of that path: GetContent, Reader, Commit
\* of a writer opened on the path, Move to the path, and PutContent, the
\* write of the whole content.
C29_EveryContentOpTracks ==
    [][\A p \in Procs, path \in Paths, size \in Sizes :
          (tracker = "ok" /\ PathDigest[path] # ""
             /\ \/ GetContent(p, path, "ok", size)
                \/ Reader(p, path, "ok", "ok", size)
                \/ PutContent(p, path, "ok")
                \/ \E w \in writers :
                      w.path = path /\ Commit(p, w, "ok", "ok", size)
                \/ \E sourcePath \in Paths :
                      Move(p, sourcePath, path, "ok", "ok", size))
          => /\ pcs'[p].state = "lock"
             /\ pcs'[p].key = PathDigest[path]]_vars

(***************************************************************************)
(* Properties of Driver.Reader (SpecDriver).                               *)
(***************************************************************************)
\* C30: a Reader that the store opened on a blob path goes on, when Stat
\* answers, to record the key of the path with the size Stat gave, and the
\* caller then has its reader and the entry, a new entry with that size;
\* when Stat fails the reader is returned at once without error and the
\* map and the goroutines stay as they are.
C30_ReaderRecordsStatSize ==
    [][/\ \A p \in Procs, path \in Paths, stat \in Outcomes, size \in Sizes :
            (Reader(p, path, "ok", stat, size) /\ PathDigest[path] # "")
            => IF stat = "ok"
               THEN tracker = "ok" =>
                      /\ pcs'[p].state = "lock"
                      /\ pcs'[p].key = PathDigest[path]
                      /\ pcs'[p].size = size
               ELSE /\ pcs'[p].state = "done"
                    /\ pcs'[p].ret = "ok"
                    /\ pcs'[p].key = ""
                    /\ UNCHANGED <<blobs, tasks, disk>>
       /\ \A p \in Procs :
            (pcs[p].op = "Reader" /\ pcs[p].state = "lock"
               /\ pcs'[p].state = "done")
            => /\ pcs'[p].ret = "ok"
               /\ Recorded(pcs[p].key)
               /\ pcs[p].key \in DOMAIN blobs'
               /\ pcs[p].key \notin DOMAIN blobs =>
                     blobs'[pcs[p].key].Size = pcs[p].size]_vars

\* A Reader of the blob file of KeyA has returned, and the entry it created
\* carries the size Stat gave and the time of the record.
C30_Witness ==
    /\ pcs["p1"].state = "done"
    /\ pcs["p1"].op = "Reader"
    /\ pcs["p1"].ret = "ok"
    /\ pcs["p1"].key = KeyA
    /\ KeyA \in DOMAIN blobs
    /\ blobs[KeyA].Size = pcs["p1"].size
    /\ blobs[KeyA].CreatedAt = pcs["p1"].stamp

(***************************************************************************)
(* The figures a cleanup cycle reports (SpecRemove).                       *)
(***************************************************************************)
\* The sums of n sizes drawn from S: what a cycle that freed n keys, each
\* tracked with a size of S, can have freed in bytes.
RECURSIVE SumsOf(_, _)
SumsOf(n, S) ==
    IF n = 0 THEN {0} ELSE {t + s : t \in SumsOf(n - 1, S), s \in S}

\* C31: when a cycle reaches its report, deletedCount is at most the number
\* of keys of its snapshot and totalSize is the sum of one tracked size for
\* each key it counted, also when a key was removed by another caller
\* during the cycle.
C31_ReportCountsAndSizes ==
    cl.pc = "report" =>
        /\ cl.deletedCount <= Len(cl.expired)
        /\ cl.totalSize \in SumsOf(cl.deletedCount, Sizes)

(***************************************************************************)
(* Properties of GetStats (SpecStats).                                     *)
(***************************************************************************)
\* The bytes of a map, size by size: each size times the number of entries
\* that carry it.
RECURSIVE BytesBySize(_, _)
BytesBySize(b, sizes) ==
    IF sizes = {} THEN 0
    ELSE LET s == CHOOSE x \in sizes : TRUE
         IN s * Cardinality({k \in DOMAIN b : b[k].Size = s})
            + BytesBySize(b, sizes \ {s})

\* C32: a GetStats changes nothing of the tracker, and the map it returns
\* holds the number of entries, the sum of their sizes and the configured
\* TTL, all of the one map the call saw.
C32_StatsOfOneSnapshot ==
    [][GetStatsStep =>
         /\ UNCHANGED <<clock, tracker, blobs, disk, tasks, cl, pcs, writers,
                        last>>
         /\ Len(stats') = 1
         /\ stats'[1].total_blobs = Cardinality(DOMAIN blobs)
         /\ stats'[1].total_size =
               BytesBySize(blobs, {blobs[k].Size : k \in DOMAIN blobs})
         /\ stats'[1].ttl = DurationString(ttl)]_vars

\* GetStats has returned the figures of a map of two entries of different
\* sizes.
C32_Witness ==
    /\ stats # <<>>
    /\ stats[1].total_blobs = 2
    /\ stats[1].total_size = 3
    /\ DOMAIN blobs = Keys
    /\ {blobs[k].Size : k \in Keys} = ReportedSizes

(***************************************************************************)
(* A cycle and the accesses that arrive during it (SpecCleanup).           *)
(***************************************************************************)
\* C33: a cycle hands a key to the delete callback, and removes its entry,
\* only while the key is past its TTL (or no longer tracked): a key
\* recorded after the snapshot is skipped.
C33_NoFreshDeletion ==
    [][\A k \in Keys :
          (\/ CleanupLeaves("delete") /\ cl.expired[cl.i] = k
           \/ CleanupRemoves(k))
          => (k \notin DOMAIN blobs \/ PastTTL(k))]_vars

(***************************************************************************)
(* The mirror files of keys that are not tracked (SpecRemove).             *)
(***************************************************************************)
\* C34: a key that is not in the map, for which no saveMetadata goroutine
\* is in flight and whose latest removal did not fail on its file, has no
\* mirror file: a goroutine that read the entry before RemoveBlob does not
\* write the file after it.
C34_NoStrayMirrorFile ==
    \A k \in Keys :
        (/\ k \notin DOMAIN blobs
         /\ \A t \in BagToSet(tasks) : t.key # k
         /\ last[k] \notin {"remove:err", "cleanup:err"})
        => getMetaFilePath(k) \notin DOMAIN disk

(***************************************************************************)
(* Entries that no cycle can find expired (Spec).                          *)
(***************************************************************************)
\* C35: every entry can expire: each key of the map, and each key a new
\* tracker would load from the directory, parses as a digest, so that
\* GetExpiredBlobs returns it once it is past its TTL.
C35_EveryEntryCanExpire ==
    /\ \A k \in DOMAIN blobs : digestParseOk(k)
    /\ \A k \in DOMAIN NewLRUTracker(disk) : digestParseOk(k)

(***************************************************************************)
(* What an operation on one key leaves alone (SpecFrame).                  *)
(***************************************************************************)
\* The step leaves the entry and the mirror file of every key but k as
\* they are.
FrameOf(k) ==
    \A j \in LoopKeys \ {k} :
        /\ (j \in DOMAIN blobs') = (j \in DOMAIN blobs)
        /\ j \in DOMAIN blobs => blobs'[j] = blobs[j]
        /\ (getMetaFilePath(j) \in DOMAIN disk')
              = (getMetaFilePath(j) \in DOMAIN disk)
        /\ getMetaFilePath(j) \in DOMAIN disk =>
              disk'[getMetaFilePath(j)] = disk[getMetaFilePath(j)]

\* No key stands twice in the sequence.
Distinct(seq) ==
    \A a, b \in 1..Len(seq) : seq[a] = seq[b] => a = b

\* C36: a RecordAccess/RecordWrite or RemoveBlob of k, by a caller or by
\* the cleanup loop, leaves the entries and mirror files of the other keys
\* unchanged; a cycle walks once, key by key, through the snapshot of
\* expired keys it took at its start, in which no key stands twice, and
\* its steps other than RemoveBlob change no entry and no file.
C36_PerKeyFrame ==
    [][/\ \A k \in LoopKeys :
            (\/ \E size \in Sizes : RecordAccessStep(k, size)
             \/ ExplicitRemoves(k)
             \/ CleanupRemoves(k))
            => FrameOf(k)
       /\ (cl.pc = "idle" /\ cl'.pc = "delete")
            => /\ cl'.i = 1
               /\ Distinct(cl'.expired)
               /\ \A a \in 1..Len(cl'.expired) :
                     cl'.expired[a] \in GetExpiredBlobs(blobs, clock)
       /\ (cl.pc \in {"delete", "size", "remove"} /\ cl' # cl)
            => /\ cl'.expired = cl.expired
               /\ cl'.pc \in {"size", "remove"} => cl'.i = cl.i
               /\ cl'.pc \in {"delete", "report"} => cl'.i = cl.i + 1
               /\ cl'.pc = "delete" => cl'.i <= Len(cl.expired)
       /\ (cl' # cl /\ ~ \E k \in LoopKeys : CleanupRemoves(k))
            => UNCHANGED <<blobs, disk>>]_vars

\* An explicit RemoveBlob of KeyA has returned nil and the entry and the
\* mirror file of KeyB are in place, while a cycle over a snapshot of both
\* keys stands at the second of them.
C36_Witness ==
    /\ last[KeyA] = "remove:nil"
    /\ KeyA \notin DOMAIN blobs
    /\ KeyB \in DOMAIN blobs
    /\ getMetaFilePath(KeyB) \in DOMAIN disk
    /\ Len(cl.expired) = 2
    /\ cl.pc \in {"delete", "size", "remove"}
    /\ cl.i = 2

=============================================================================
